---- MODULE Spec2Model ----
(***************************************************************************)
(* Model of src-go/server/certificate.go: the bootstrap of the self-signed *)
(* root CA (NewCertificateAuthority) over the two files ca.der and         *)
(* caKey.der, the per-user configuration directory, the process-wide       *)
(* serial counter and the wall clock.                                      *)
(*                                                                         *)
(* Byte strings and parsed objects are different values: a file holds      *)
(* bytes (a record with a kind), ParseCertificate / ParsePKCS8PrivateKey   *)
(* turn bytes into objects and CreateCertificate / MarshalPKCS8PrivateKey  *)
(* turn objects into bytes.  rsa.GenerateKey draws from crypto/rand; a     *)
(* 2048-bit key never repeats in practice, so every generated key gets a   *)
(* fresh identity (nextKey).                                               *)
(***************************************************************************)
EXTENDS Integers, Sequences, FiniteSets, TLC

\* ---------------------------------------------------------------- bounds
NumThreads == 2        \* goroutines that may call NewCertificateAuthority
MaxCalls == 2          \* calls started over the whole run
MaxClock == 1          \* seconds the wall clock advances over the run

\* ------------------------------------------------------ program constants
KeyBits == 2048        \* rsa.GenerateKey(rand.Reader, 2048)
Year == 5              \* AddDate(+-1, 0, 0), in clock units

caFile == "ca.der"
caKeyFile == "caKey.der"
FileNames == {caFile, caKeyFile}

Threads == 1..NumThreads

VARIABLES
  userConfigDirOK,      \* os.UserConfigDir() succeeds ($HOME / $XDG_CONFIG_HOME set)
  parentExists,         \* the directory os.UserConfigDir() names exists
  dirExists,            \* <userConfigDir>/burp-awesome-tls exists
  files,                \* content of ca.der and caKey.der at the resolved path
  currentSerialNumber,  \* the package-level counter
  clock,                \* time.Now().Unix()
  nextKey,              \* identity of the next key rsa.GenerateKey draws
  th,                   \* per goroutine: position in NewCertificateAuthority and its locals
  calls,                \* history: calls started so far
  allocated,            \* history: serials handed out by this process, in order
  totalAlloc,           \* history: serials handed out over all processes
  restarts,             \* history: process restarts so far
  seed,                 \* history: the value line 28 gave the counter in this process
  pristine,             \* history: the store started empty and no write was cut short
  last                  \* history: the call that completed last

vars == <<userConfigDirOK, parentExists, dirExists, files, currentSerialNumber,
          clock, nextKey, th, calls, allocated, totalAlloc, restarts, seed,
          pristine, last>>

env == <<userConfigDirOK, parentExists>>

\* ------------------------------------------------------------ file contents
Absent == [kind |-> "absent"]          \* no such file
Unreadable == [kind |-> "unreadable"]  \* the file exists, os.ReadFile fails (EACCES, EISDIR, EIO)
Garbage == [kind |-> "garbage"]        \* bytes that are neither a certificate nor PKCS#8 (also a truncated file)

Nil == [kind |-> "nil"]                \* Go's nil pointer / zero value of a local

\* ----------------------------------------------------------------- crypto
\* priv.Public()
Public(priv) == [alg |-> priv.alg, bits |-> priv.bits, n |-> priv.id]

\* x509.MarshalPKIXPublicKey
MarshalPKIXPublicKey(pub) == [kind |-> "pkix", alg |-> pub.alg, bits |-> pub.bits, n |-> pub.n]

\* sha1.New(); h.Write(pkixpub); h.Sum(nil)
Sha1Sum(bytes) == [sha1 |-> bytes]

\* mutant: the key is written as PKCS#1 (x509.MarshalPKCS1PrivateKey) although
\* it is read back as PKCS#8
MarshalPKCS1PrivateKey(priv) ==
  [kind |-> "pkcs1", alg |-> priv.alg, bits |-> priv.bits, id |-> priv.id]

\* x509.MarshalPKCS8PrivateKey
MarshalPKCS8PrivateKey(priv) ==
  [kind |-> "pkcs8", alg |-> priv.alg, bits |-> priv.bits, id |-> priv.id]

\* x509.ParsePKCS8PrivateKey
ParsePKCS8PrivateKey(bytes) ==
  IF bytes.kind = "pkcs8"
  THEN [err |-> "none", key |-> [kind |-> "key", alg |-> bytes.alg, bits |-> bytes.bits, id |-> bytes.id]]
  ELSE [err |-> "parse", key |-> Nil]

\* mutant: the certificate embeds a public key other than pub (as when the
\* template's empty key slot, not the pub argument, is encoded)
CreateCertificateTemplateKey(tmpl, pub, priv) ==
  [kind |-> "x509", serial |-> tmpl.SerialNumber, skid |-> tmpl.SubjectKeyId,
   notBefore |-> tmpl.NotBefore, notAfter |-> tmpl.NotAfter, isCA |-> tmpl.IsCA,
   pub |-> [pub EXCEPT !.n = 0], signer |-> priv.id]

\* x509.CreateCertificate(rand.Reader, tmpl, tmpl, pub, priv): the DER bytes of
\* the template's fields and pub, signed by priv (issuer = subject = tmpl)
CreateCertificate(tmpl, pub, priv) ==
  [kind |-> "x509", serial |-> tmpl.SerialNumber, skid |-> tmpl.SubjectKeyId,
   notBefore |-> tmpl.NotBefore, notAfter |-> tmpl.NotAfter, isCA |-> tmpl.IsCA,
   pub |-> pub, signer |-> priv.id]

\* x509.ParseCertificate
ParseCertificate(bytes) ==
  IF bytes.kind = "x509"
  THEN [err |-> "none",
        cert |-> [kind |-> "cert", Raw |-> bytes, SerialNumber |-> bytes.serial,
                  SubjectKeyId |-> bytes.skid, NotBefore |-> bytes.notBefore,
                  NotAfter |-> bytes.notAfter, IsCA |-> bytes.isCA,
                  PublicKey |-> bytes.pub]]
  ELSE [err |-> "parse", cert |-> Nil]

\* t.AddDate(years, 0, 0)
AddDate(t, years) == t + years * Year

\* what time.Now().Unix() may return: the wall clock has advanced by some
\* number of seconds since it was last read
Now == clock..MaxClock

\* mutant: the counter is decremented
SubInt64(value, delta) == value - delta

\* mutant: the counter is read but not advanced
LoadInt64(value, delta) == value

\* atomic.AddInt64(&addr, delta): the new value.  The counter is an int64 seeded
\* with the Unix time; the calls of one run cannot bring it near 2^63, so the
\* wrap-around is not modelled.
AtomicAddInt64(value, delta) == value + delta

\* ------------------------------------------------------------- file system
\* getAbsoluteFilePath's side effect: os.Mkdir(configDir, 0o700), its error
\* dropped.  Mkdir creates one level only: it fails when the parent is missing.
Mkdir(exists) == exists \/ (userConfigDirOK /\ parentExists)

\* whether the path getAbsoluteFilePath returns lies in an existing directory
\* (the fallback is the bare file name in the working directory)
PathUsable(exists) == ~userConfigDirOK \/ exists

\* os.ReadFile(getAbsoluteFilePath(file)), given the directory state after Mkdir
ReadFile(file, exists) ==
  IF ~PathUsable(exists) \/ files[file] = Absent THEN [err |-> "notExist", bytes |-> Nil]
  ELSE IF files[file] = Unreadable THEN [err |-> "read", bytes |-> Nil]
  ELSE [err |-> "none", bytes |-> files[file]]

\* readCertFromDisk
readCertFromDisk(file, exists) ==
  LET r == ReadFile(file, exists) IN
  IF r.err # "none" THEN [err |-> r.err, cert |-> Nil]
  ELSE ParseCertificate(r.bytes)

\* mutant: the type assertion of line 65 is dropped, any PKCS#8 key is returned
readPrivateKeyNoTypeCheck(file, exists) ==
  LET r == ReadFile(file, exists) IN
  IF r.err # "none" THEN [err |-> r.err, key |-> Nil]
  ELSE ParsePKCS8PrivateKey(r.bytes)

\* readPrivateKeyFromDisk
readPrivateKeyFromDisk(file, exists) ==
  LET r == ReadFile(file, exists) IN
  IF r.err # "none" THEN [err |-> r.err, key |-> Nil]
  ELSE LET p == ParsePKCS8PrivateKey(r.bytes) IN
       IF p.err # "none" THEN p
       ELSE IF p.key.alg # "rsa" THEN [err |-> "wrongType", key |-> Nil]
       ELSE p

\* outcomes of os.WriteFile(path, data, 0o600): written; the open fails (the
\* file is untouched); the open truncates and the write then fails
WriteOutcomes == {"ok", "openFails", "writeFails"}

\* the file after os.WriteFile
WriteFile(old, data, outcome, exists) ==
  IF ~PathUsable(exists) \/ outcome = "openFails" THEN old
  ELSE IF outcome = "writeFails" THEN Garbage
  ELSE data

\* whether os.WriteFile left a truncated file behind
CutShort(outcome, exists) == PathUsable(exists) /\ outcome = "writeFails"

\* mutant: the error of os.WriteFile is dropped
WriteErrorDropped(outcome, exists) == TRUE

\* whether os.WriteFile returned nil
WriteOk(outcome, exists) == PathUsable(exists) /\ outcome = "ok"

\* ------------------------------------------------------------ goroutine state
NoRet == [status |-> "none", cert |-> Nil, key |-> Nil]

NoFiles == [f \in FileNames |-> Absent]

\* no call has completed yet
NoCall ==
  [path |-> "none", ret |-> NoRet, failed |-> "none", start |-> NoFiles,
   end |-> NoFiles, alloc0 |-> 0, alloc1 |-> 0, process |-> 0]

\* a goroutine outside NewCertificateAuthority
\* (injected: the environment made a step of this call fail - the random
\* source, the signer or a file write)
IdleThread ==
  [pc |-> "idle", certFromDisk |-> Nil, keyFromDisk |-> Nil, err |-> "none",
   priv |-> Nil, keyID |-> Nil, serial |-> 0, notBefore |-> 0, notAfter |-> 0,
   raw |-> Nil, x509c |-> Nil, ret |-> NoRet,
   \* history of the call in progress
   path |-> "none", failed |-> "none", injected |-> FALSE, logs |-> {}, wrote |-> {},
   start |-> NoFiles, startDir |-> FALSE, alloc0 |-> 0, prev |-> NoCall]

\* mutant: the certificate read never leads to the key read
AfterCertReadRegenerates(err) ==
  [log |-> err # "none" /\ err # "notExist", next |-> "generate"]

\* mutant: a missing certificate file is logged like any other read error
AfterCertReadLogsAll(err) ==
  IF err # "none" THEN [log |-> TRUE, next |-> "generate"]
  ELSE [log |-> FALSE, next |-> "readKey"]

\* lines 77-79: what follows readCertFromDisk's result
AfterCertRead(err) ==
  IF err # "none" /\ err # "notExist" THEN [log |-> TRUE, next |-> "generate"]
  ELSE IF err = "none" THEN [log |-> FALSE, next |-> "readKey"]
  ELSE [log |-> FALSE, next |-> "generate"]

\* mutant: a failed key read makes the call try the load again
AfterKeyReadRetries(err) ==
  IF err # "none" THEN [log |-> TRUE, next |-> "readCert"]
  ELSE [log |-> FALSE, next |-> "return"]

\* mutant: the else of line 83 is lost, the call returns after the log
AfterKeyReadFallsThrough(err) == [log |-> err # "none", next |-> "return"]

\* lines 81-85: what follows readPrivateKeyFromDisk's result
AfterKeyRead(err) ==
  IF err # "none" THEN [log |-> TRUE, next |-> "generate"]
  ELSE [log |-> FALSE, next |-> "return"]

\* mutant: the error is not checked, the call goes on
ErrIgnored(isErr) == FALSE

\* `if err != nil { return nil, nil, err }` on the generate path (lines 90, 128,
\* 133, 143, 149): whether the call returns here
ErrReturn(isErr) == isErr

\* lines 111-125: the template
Template(serial, keyID, notBefore, notAfter) ==
  [SerialNumber |-> serial, SubjectKeyId |-> keyID, NotBefore |-> notBefore,
   NotAfter |-> notAfter, IsCA |-> TRUE]

\* the summary of a completed call kept in last
Summary(rec, filesAfter, allocAfter) ==
  [path |-> rec.path, ret |-> rec.ret, failed |-> rec.failed, start |-> rec.start,
   end |-> filesAfter, alloc0 |-> rec.alloc0, alloc1 |-> allocAfter, process |-> restarts]

\* `return cert, key, nil` / `return nil, nil, err` applied to a goroutine record
Returned(rec, status, cert, key) ==
  [rec EXCEPT !.pc = "done", !.ret = [status |-> status, cert |-> cert, key |-> key]]

\* one step of the generate path: rec is the goroutine after the step, isErr
\* whether the step set err, step its name, next the position after it
Checked(rec, isErr, step, next) ==
  LET r == [rec EXCEPT !.failed = IF isErr /\ @ = "none" THEN step ELSE @] IN
  IF ErrReturn(isErr) THEN Returned(r, "err", Nil, Nil) ELSE [r EXCEPT !.pc = next]

\* --------------------------------------------------------------- the start
OldKey == [kind |-> "key", alg |-> "rsa", bits |-> KeyBits, id |-> 0]
OtherKey == [kind |-> "key", alg |-> "rsa", bits |-> KeyBits, id |-> 1]
ECKeyBytes == [kind |-> "pkcs8", alg |-> "ec", bits |-> 256, id |-> 0]

\* a CA an earlier run of the program left behind
OldCertBytes ==
  CreateCertificate(Template(1, Sha1Sum(MarshalPKIXPublicKey(Public(OldKey))),
                             AddDate(0, -1), AddDate(0, 1)),
                    Public(OldKey), OldKey)

InitCertContents == {Absent, Unreadable, Garbage, OldCertBytes}
InitKeyContents ==
  {Absent, Unreadable, Garbage, MarshalPKCS8PrivateKey(OldKey),
   MarshalPKCS8PrivateKey(OtherKey), ECKeyBytes}

Init ==
  /\ userConfigDirOK \in BOOLEAN
  /\ parentExists \in BOOLEAN
  /\ dirExists \in BOOLEAN
  /\ (~userConfigDirOK => ~parentExists)
  /\ (dirExists => userConfigDirOK /\ parentExists)
  /\ files \in [FileNames -> InitCertContents \cup InitKeyContents]
  /\ files[caFile] \in InitCertContents
  /\ files[caKeyFile] \in InitKeyContents
  /\ (~PathUsable(dirExists) => \A f \in FileNames : files[f] = Absent)
  \* the damaged stores are enumerated in the per-user directory; the working
  \* directory fallback starts empty or with the CA of an earlier run
  /\ (~userConfigDirOK => \/ \A f \in FileNames : files[f] = Absent
                          \/ files = [f \in FileNames |->
                                        IF f = caFile THEN OldCertBytes
                                        ELSE MarshalPKCS8PrivateKey(OldKey)])
  \* the key file is read only after the certificate file parsed
  /\ (files[caFile] # OldCertBytes =>
        files[caKeyFile] \in {Absent, MarshalPKCS8PrivateKey(OldKey)})
  /\ clock = 0
  /\ currentSerialNumber = clock          \* var currentSerialNumber = time.Now().Unix()
  /\ nextKey = 2
  /\ th = [t \in Threads |-> IdleThread]
  /\ calls = 0
  /\ allocated = <<>>
  /\ totalAlloc = 0
  /\ restarts = 0
  /\ seed = currentSerialNumber
  /\ pristine = (files = NoFiles)
  /\ last = NoCall

\* ----------------------------------------------------------------- actions
\* a goroutine enters NewCertificateAuthority (goroutines are interchangeable:
\* the call runs on the lowest free one)
Call(t) ==
  /\ th[t].pc \in {"idle", "done"}
  /\ \A u \in Threads : u < t => th[u].pc \notin {"idle", "done"}
  /\ calls < MaxCalls
  /\ calls' = calls + 1
  /\ th' = [th EXCEPT ![t] = [IdleThread EXCEPT !.pc = "readCert", !.start = files,
                                                !.startDir = dirExists,
                                                !.alloc0 = totalAlloc, !.prev = last]]
  /\ UNCHANGED <<env, dirExists, files, currentSerialNumber, clock, nextKey,
                 allocated, totalAlloc, restarts, seed, pristine, last>>

\* lines 75-79: readCertFromDisk(caFile) and the branch on its error
ReadCert(t) ==
  /\ th[t].pc = "readCert"
  /\ LET d == Mkdir(dirExists)
         r == readCertFromDisk(caFile, d)
         a == AfterCertRead(r.err)
     IN /\ dirExists' = d
        /\ th' = [th EXCEPT ![t].certFromDisk = r.cert, ![t].err = r.err,
                            ![t].logs = IF a.log THEN @ \cup {caFile} ELSE @,
                            ![t].path = IF a.next = "generate" THEN "generate" ELSE @,
                            ![t].pc = a.next]
  /\ UNCHANGED <<env, files, currentSerialNumber, clock, nextKey, calls,
                 allocated, totalAlloc, restarts, seed, pristine, last>>

\* lines 80-85: readPrivateKeyFromDisk(caKeyFile) and the branch on its error
ReadKey(t) ==
  /\ th[t].pc = "readKey"
  /\ LET d == Mkdir(dirExists)
         r == readPrivateKeyFromDisk(caKeyFile, d)
         a == AfterKeyRead(r.err)
         rec == [th[t] EXCEPT !.keyFromDisk = r.key, !.err = r.err,
                              !.logs = IF a.log THEN @ \cup {caKeyFile} ELSE @]
         out == IF a.next = "return"
                THEN Returned([rec EXCEPT !.path = "recovered"], "ok",
                              rec.certFromDisk, rec.keyFromDisk)
                ELSE [rec EXCEPT !.path = "generate", !.pc = a.next]
     IN /\ dirExists' = d
        /\ th' = [th EXCEPT ![t] = out]
        /\ last' = IF out.pc = "done" THEN Summary(out, files, totalAlloc) ELSE last
  /\ UNCHANGED <<env, files, currentSerialNumber, clock, nextKey, calls,
                 allocated, totalAlloc, restarts, seed, pristine>>

\* lines 89-121: rsa.GenerateKey, the public key and the subject key identifier,
\* the serial (atomic.AddInt64(&currentSerialNumber, 1)) and the template's
\* NotBefore (time.Now().AddDate(-1, 0, 0))
Generate(t) ==
  /\ th[t].pc = "generate"
  /\ \E ok \in BOOLEAN, now \in Now :
       LET priv == IF ok THEN [kind |-> "key", alg |-> "rsa", bits |-> KeyBits, id |-> nextKey]
                   ELSE Nil
           keyed == Checked([th[t] EXCEPT !.priv = priv, !.injected = @ \/ ~ok],
                            ~ok, "keygen", "serial")
           serial == AtomicAddInt64(currentSerialNumber, 1)
       IN IF keyed.pc = "done"
          THEN /\ th' = [th EXCEPT ![t] = keyed]
               /\ last' = Summary(keyed, files, totalAlloc)
               /\ UNCHANGED <<nextKey, currentSerialNumber, allocated, totalAlloc, clock>>
          ELSE /\ nextKey' = IF ok THEN nextKey + 1 ELSE nextKey
               /\ clock' = now
               /\ currentSerialNumber' = serial
               /\ allocated' = Append(allocated, serial)
               /\ totalAlloc' = totalAlloc + 1
               /\ th' = [th EXCEPT ![t] =
                           [keyed EXCEPT !.keyID = IF ok THEN Sha1Sum(MarshalPKIXPublicKey(Public(priv)))
                                                   ELSE Nil,
                                         !.serial = serial,
                                         !.notBefore = AddDate(now, -1),
                                         !.pc = "sign"]]
               /\ last' = last
  /\ UNCHANGED <<env, dirExists, files, calls, restarts, seed, pristine>>

\* lines 122-130: the template's NotAfter (time.Now().AddDate(1, 0, 0)) and
\* x509.CreateCertificate
Sign(t) ==
  /\ th[t].pc = "sign"
  /\ \E ok \in BOOLEAN, now \in Now :
       LET rec == [th[t] EXCEPT !.notAfter = AddDate(now, 1)]
           tmpl == Template(rec.serial, rec.keyID, rec.notBefore, rec.notAfter)
           raw == IF ok /\ rec.priv # Nil
                  THEN CreateCertificate(tmpl, Public(rec.priv), rec.priv)
                  ELSE Nil
           out == Checked([rec EXCEPT !.raw = raw, !.injected = @ \/ ~ok],
                          raw = Nil, "sign", "writeCert")
       IN /\ clock' = now
          /\ th' = [th EXCEPT ![t] = out]
          /\ last' = IF out.pc = "done" THEN Summary(out, files, totalAlloc) ELSE last
  /\ UNCHANGED <<env, dirExists, files, currentSerialNumber, nextKey,
                 calls, allocated, totalAlloc, restarts, seed, pristine>>

\* lines 132-135: os.WriteFile(getAbsoluteFilePath(caFile), raw, 0o600)
WriteCert(t) ==
  /\ th[t].pc = "writeCert"
  /\ \E o \in WriteOutcomes :
       LET d == Mkdir(dirExists)
           rec == th[t]
           filesAfter == [files EXCEPT ![caFile] = WriteFile(@, rec.raw, o, d)]
           out == Checked([rec EXCEPT !.wrote = IF WriteOk(o, d) THEN @ \cup {caFile} ELSE @,
                                      !.injected = @ \/ o # "ok"],
                          ~WriteOk(o, d), "writeCert", "writeKey")
       IN /\ dirExists' = d
          /\ files' = filesAfter
          /\ pristine' = (pristine /\ ~CutShort(o, d))
          /\ th' = [th EXCEPT ![t] = out]
          /\ last' = IF out.pc = "done" THEN Summary(out, filesAfter, totalAlloc) ELSE last
  /\ UNCHANGED <<env, currentSerialNumber, clock, nextKey, calls, allocated, totalAlloc,
                 restarts, seed>>

\* lines 137-153: x509.MarshalPKCS8PrivateKey(priv),
\* os.WriteFile(getAbsoluteFilePath(caKeyFile), privBytes, 0o600), and then
\* x509.ParseCertificate(raw) and the final return
WriteKey(t) ==
  /\ th[t].pc = "writeKey"
  /\ \E o \in WriteOutcomes :
       LET d == Mkdir(dirExists)
           rec == th[t]
           privBytes == IF rec.priv # Nil THEN MarshalPKCS8PrivateKey(rec.priv) ELSE Nil
           filesAfter == [files EXCEPT ![caKeyFile] = WriteFile(@, privBytes, o, d)]
           written == Checked([rec EXCEPT !.wrote = IF WriteOk(o, d) THEN @ \cup {caKeyFile} ELSE @,
                                          !.injected = @ \/ o # "ok"],
                              ~WriteOk(o, d), "writeKey", "parse")
           p == ParseCertificate(rec.raw)
           parsed == Checked([written EXCEPT !.x509c = p.cert], p.err # "none", "parse", "return")
           out == IF written.pc = "done" THEN written
                  ELSE IF parsed.pc = "done" THEN parsed
                  ELSE Returned(parsed, "ok", parsed.x509c, parsed.priv)
       IN /\ dirExists' = d
          /\ files' = filesAfter
          /\ pristine' = (pristine /\ ~CutShort(o, d))
          /\ th' = [th EXCEPT ![t] = out]
          /\ last' = Summary(out, filesAfter, totalAlloc)
  /\ UNCHANGED <<env, currentSerialNumber, clock, nextKey, calls, allocated, totalAlloc,
                 restarts, seed>>

\* the process exits and a new one starts: line 28 runs again
Restart ==
  /\ \A t \in Threads : th[t].pc \in {"idle", "done"}
  /\ \E t \in Threads : th[t].pc = "done"
  /\ th' = [t \in Threads |-> IdleThread]
  /\ \E now \in Now :
       /\ clock' = now
       /\ currentSerialNumber' = now
       /\ seed' = now
  /\ allocated' = <<>>
  /\ restarts' = restarts + 1
  /\ UNCHANGED <<env, dirExists, files, nextKey, calls, totalAlloc, pristine, last>>

Step(t) ==
  \/ ReadCert(t) \/ ReadKey(t) \/ Generate(t) \/ Sign(t) \/ WriteCert(t) \/ WriteKey(t)

Next ==
  \/ \E t \in Threads : Call(t)
  \/ \E t \in Threads : Step(t)
  \/ Restart

Spec == Init /\ [][Next]_vars

\* calls made one after the other: a call starts only when no other is running
CallSeq(t) ==
  /\ \A u \in Threads : th[u].pc \in {"idle", "done"}
  /\ Call(t)

NextSeq ==
  \/ \E t \in Threads : CallSeq(t)
  \/ \E t \in Threads : Step(t)
  \/ Restart

SpecSeq == Init /\ [][NextSeq]_vars

\* a call that has started runs on: the goroutine is scheduled again and each
\* of its blocking library calls returns
SpecFair == Spec /\ \A t \in Threads : WF_vars(Step(t))

TypeOK ==
  /\ \A t \in Threads : th[t].pc \in {"idle", "readCert", "readKey", "generate", "sign",
                                      "writeCert", "writeKey", "done"}
  /\ calls \in 0..MaxCalls
  /\ clock \in 0..MaxClock

\* ------------------------------------------------------------------ claims
Done(t) == th[t].pc = "done"

BothFiles == {caFile, caKeyFile}

\* a certificate file readCertFromDisk accepts
LoadableCert(content) ==
  content \notin {Absent, Unreadable} /\ ParseCertificate(content).err = "none"

\* a key file readPrivateKeyFromDisk accepts
LoadableKey(content) ==
  /\ content \notin {Absent, Unreadable}
  /\ ParsePKCS8PrivateKey(content).err = "none"
  /\ ParsePKCS8PrivateKey(content).key.alg = "rsa"

ValidStore(fs) == LoadableCert(fs[caFile]) /\ LoadableKey(fs[caKeyFile])

GenerateSteps == {"keygen", "sign", "writeCert", "writeKey", "parse"}

\* C1 (under SpecSeq): when a call starts on a store whose two files are present
\* and valid, it and the call that follows it (also after a process restart)
\* both recover, return the same certificate and key (same serial number, same
\* validity window), write no file and allocate no serial.
C1_Idempotent ==
  \A t \in Threads :
    (Done(t) /\ th[t].prev.path # "none" /\ ValidStore(th[t].prev.start)) =>
      /\ th[t].prev.path = "recovered" /\ th[t].path = "recovered"
      /\ th[t].prev.ret.status = "ok"
      /\ th[t].ret = th[t].prev.ret
      /\ th[t].ret.cert.SerialNumber = th[t].prev.ret.cert.SerialNumber
      /\ th[t].ret.cert.NotBefore = th[t].prev.ret.cert.NotBefore
      /\ th[t].ret.cert.NotAfter = th[t].prev.ret.cert.NotAfter
      /\ th[t].wrote = {}
      /\ th[t].start = th[t].prev.start /\ files = th[t].prev.start
      /\ totalAlloc = th[t].prev.alloc0

\* two recovering calls, the second in a restarted process
C1_Witness ==
  \E t \in Threads :
    /\ Done(t) /\ th[t].path = "recovered" /\ th[t].prev.path = "recovered"
    /\ ValidStore(th[t].prev.start)
    /\ th[t].prev.process < restarts

\* C2: a certificate and a key that both parse but do not belong together are
\* never returned by the load path.
C2_LoadedPairMatches ==
  \A t \in Threads :
    (Done(t) /\ th[t].path = "recovered") =>
      th[t].ret.cert.PublicKey.n = th[t].ret.key.id

\* the store a call started on has a valid certificate and no usable key
KeyLost(t) ==
  LoadableCert(th[t].start[caFile]) /\ ~LoadableKey(th[t].start[caKeyFile])

\* C3 (under SpecSeq): a call that finds a valid certificate file but a key file
\* that is missing, unreadable, unparsable or not RSA takes the generate path;
\* it fails only if a generation or persistence step fails, and otherwise
\* returns a new CA, different from the one on disk, that both files now hold.
C3_CorruptionRecovery ==
  \A t \in Threads :
    (Done(t) /\ KeyLost(t)) =>
      /\ th[t].path = "generate"
      /\ th[t].err \in {"notExist", "read", "parse", "wrongType"}
      /\ (th[t].ret.status = "err" => th[t].injected /\ th[t].failed \in GenerateSteps)
      /\ (~th[t].injected =>
            /\ th[t].ret.status = "ok"
            /\ th[t].ret.cert.Raw # th[t].start[caFile]
            /\ th[t].ret.cert.PublicKey # ParseCertificate(th[t].start[caFile]).cert.PublicKey
            /\ files[caFile] = th[t].ret.cert.Raw
            /\ files[caKeyFile] = MarshalPKCS8PrivateKey(th[t].ret.key)
            /\ files[caKeyFile] # th[t].start[caKeyFile])

\* a successful recovery from a key file holding a non-RSA key
C3_Witness ==
  \E t \in Threads :
    /\ Done(t) /\ KeyLost(t) /\ th[t].start[caKeyFile] = ECKeyBytes
    /\ th[t].ret.status = "ok" /\ files[caFile] = th[t].ret.cert.Raw

\* C4: a call in which the write of ca.der or of caKey.der failed returns an
\* error and neither certificate nor key; a generated CA is returned only after
\* both writes succeeded.
C4_PersistFailureFatal ==
  \A t \in Threads :
    Done(t) =>
      /\ (th[t].failed \in {"writeCert", "writeKey"} =>
            th[t].ret = [status |-> "err", cert |-> Nil, key |-> Nil])
      /\ ((th[t].path = "generate" /\ th[t].ret.status = "ok") =>
            th[t].wrote = BothFiles /\ ~th[t].injected)

\* the key write failed after the certificate was written
C4_Witness ==
  \E t \in Threads :
    Done(t) /\ th[t].failed = "writeKey" /\ th[t].wrote = {caFile} /\ th[t].ret.status = "err"

\* the goroutine holds a serial from the counter of the running process
HasSerial(t) ==
  th[t].path = "generate" /\ th[t].pc \in {"sign", "writeCert", "writeKey", "done"}
  /\ th[t].failed # "keygen"

\* C5: the serials handed out by one process are pairwise distinct, whatever the
\* interleaving of the calls.
C5_SerialsDistinct ==
  /\ \A i, j \in 1..Len(allocated) : i # j => allocated[i] # allocated[j]
  /\ \A t, u \in Threads : (t # u /\ HasSerial(t) /\ HasSerial(u)) => th[t].serial # th[u].serial

\* two calls are on the generate path at once, each with its serial
C5_Witness ==
  \E t, u \in Threads :
    /\ t # u /\ HasSerial(t) /\ HasSerial(u)
    /\ th[t].pc # "done" /\ th[u].pc # "done"
    /\ Len(allocated) = 2

\* C6 (under SpecSeq): the call that follows a call that generated and
\* persisted a CA loads it, and returns a certificate and a key whose encoded
\* bytes (the certificate's DER, the key's PKCS#8) equal those the generating
\* call returned.
C6_RoundTrip ==
  \A t \in Threads :
    (Done(t) /\ th[t].prev.path = "generate" /\ th[t].prev.ret.status = "ok") =>
      /\ th[t].path = "recovered"
      /\ th[t].ret.status = "ok"
      /\ th[t].ret.cert.Raw = th[t].prev.ret.cert.Raw
      /\ MarshalPKCS8PrivateKey(th[t].ret.key) = MarshalPKCS8PrivateKey(th[t].prev.ret.key)
      /\ th[t].ret.cert.Raw = th[t].start[caFile]
      /\ MarshalPKCS8PrivateKey(th[t].prev.ret.key) = th[t].start[caKeyFile]

\* a load that follows a generation
C6_Witness ==
  \E t \in Threads :
    /\ Done(t) /\ th[t].path = "recovered"
    /\ th[t].prev.path = "generate" /\ th[t].prev.ret.status = "ok"
    /\ th[t].ret.cert.Raw.signer >= 2

\* the call started on a storage location that is empty or does not exist
EmptyStore(t) == th[t].start = NoFiles

\* C7 (under SpecSeq): a call on an empty or nonexistent storage location, with no fault of the
\* random source, the signer or the disk, creates the directory and both files
\* and returns a self-signed CA.
C7_MissingDirectoryBootstrap ==
  \A t \in Threads :
    (Done(t) /\ EmptyStore(t) /\ ~th[t].injected) =>
      /\ th[t].ret.status = "ok"
      /\ PathUsable(dirExists)
      /\ th[t].wrote = BothFiles
      /\ th[t].ret.cert.Raw.signer = th[t].ret.key.id

\* a load error was met by this call
LoadError(t) == th[t].err # "none"

\* C8: every error of the certificate read or of the key read puts the call on
\* the generate path; a call returns an error only when a generation or
\* persistence step failed, never for the load error alone.
C8_LoadErrorsNotFatal ==
  \A t \in Threads :
    /\ (LoadError(t) /\ th[t].pc # "readKey") =>
          /\ th[t].path = "generate"
          /\ th[t].ret.status = "err" => th[t].failed \in GenerateSteps
          /\ (Done(t) /\ th[t].failed = "none") => th[t].ret.status = "ok"
    /\ th[t].ret.status = "err" => (th[t].path = "generate" /\ th[t].failed \in GenerateSteps)

\* a call succeeded although the certificate file did not parse
C8_Witness ==
  \E t \in Threads :
    Done(t) /\ th[t].err = "parse" /\ th[t].logs = {caFile} /\ th[t].ret.status = "ok"

\* C9: the certificate a call returns from the generate path embeds the public
\* key of the private key it returns, and is signed by that key, under every
\* interleaving.
C9_GeneratedPairMatches ==
  \A t \in Threads :
    (Done(t) /\ th[t].path = "generate" /\ th[t].ret.status = "ok") =>
      /\ th[t].ret.cert.PublicKey.n = th[t].ret.key.id
      /\ th[t].ret.cert.PublicKey.alg = th[t].ret.key.alg
      /\ th[t].ret.cert.Raw.signer = th[t].ret.key.id

\* two calls that ran concurrently both returned a generated CA
C9_Witness ==
  \E t, u \in Threads :
    /\ t # u
    /\ Done(t) /\ th[t].path = "generate" /\ th[t].ret.status = "ok"
    /\ Done(u) /\ th[u].path = "generate" /\ th[u].ret.status = "ok"

\* C10 as stated: a file is written only after the signed certificate was
\* parsed back.
C10_ParsedBeforeWrite ==
  \A t \in Threads : th[t].wrote # {} => th[t].x509c # Nil

\* C10 amended (under SpecSeq): a file is written only after key generation,
\* template and signing succeeded; the parse-back follows both writes; a call
\* that fails in key generation or signing leaves both files as it found them.
C10_GeneratedBeforeWrite ==
  \A t \in Threads :
    /\ th[t].wrote # {} =>
         /\ th[t].priv # Nil /\ th[t].raw # Nil
         /\ th[t].failed \notin {"keygen", "sign"}
    /\ th[t].x509c # Nil => th[t].wrote = BothFiles
    /\ (Done(t) /\ th[t].failed \in {"keygen", "sign"}) =>
         /\ th[t].wrote = {}
         /\ files = th[t].start

\* signing failed over a store that held files
C10_Witness ==
  \E t \in Threads :
    /\ Done(t) /\ th[t].failed = "sign"
    /\ th[t].start[caFile] # Absent /\ files = th[t].start

\* C11 (under SpecSeq): on the generate path ca.der is written before
\* caKey.der, and caKey.der is written only by a call whose write of ca.der
\* succeeded; a call whose certificate write failed leaves the key file as it
\* found it.
C11_CertBeforeKey ==
  \A t \in Threads :
    /\ caKeyFile \in th[t].wrote => caFile \in th[t].wrote
    /\ th[t].pc = "writeKey" => (caFile \in th[t].wrote /\ th[t].failed = "none")
    /\ th[t].failed = "writeCert" =>
         /\ th[t].wrote = {}
         /\ Done(t) => files[caKeyFile] = th[t].start[caKeyFile]

\* the certificate write failed over a store that held a key file
C11_Witness ==
  \E t \in Threads :
    /\ Done(t) /\ th[t].failed = "writeCert"
    /\ th[t].start[caKeyFile] = MarshalPKCS8PrivateKey(OldKey)
    /\ files[caKeyFile] = th[t].start[caKeyFile]

\* what a load of the store returns
LoadedPair(fs) ==
  [status |-> "ok", cert |-> ParseCertificate(fs[caFile]).cert,
   key |-> ParsePKCS8PrivateKey(fs[caKeyFile]).key]

\* C12 (under SpecSeq): a call recovers exactly when both files of the store
\* load; it then returns the loaded pair and leaves ca.der, caKey.der, the
\* directory and the serial counter as they were.
C12_RecoveredNoMutation ==
  \A t \in Threads :
    /\ (Done(t) /\ th[t].path = "recovered") =>
         /\ ValidStore(th[t].start)
         /\ th[t].ret = LoadedPair(th[t].start)
         /\ th[t].wrote = {}
         /\ files = th[t].start
         /\ dirExists = th[t].startDir
         /\ totalAlloc = th[t].alloc0
         /\ th[t].serial = 0
         /\ (allocated = <<>> \/ currentSerialNumber = allocated[Len(allocated)])
    /\ (Done(t) /\ ValidStore(th[t].start)) => th[t].path = "recovered"

\* a call recovered in a process that had generated before
C12_Witness ==
  \E t \in Threads :
    /\ Done(t) /\ th[t].path = "recovered" /\ files = th[t].start
    /\ allocated # <<>> /\ th[t].alloc0 = 1

\* the certificate read of the call failed
CertReadFailed(t) == th[t].pc \notin {"idle", "readCert"} /\ th[t].certFromDisk = Nil

\* the key read of the call was made
KeyReadDone(t) == th[t].pc \notin {"idle", "readCert", "readKey"} /\ th[t].certFromDisk # Nil

\* C13 as stated: a file that is not found, be it ca.der or caKey.der, leads to
\* generation without a diagnostic.
C13_NotFoundSilent ==
  \A t \in Threads :
    ((CertReadFailed(t) \/ KeyReadDone(t)) /\ th[t].err = "notExist") =>
      (th[t].path = "generate" /\ th[t].logs = {})

\* C13 amended: every read error leads to generation; a missing ca.der is not
\* logged, a read or parse failure of ca.der is; every failure of the key read
\* is logged, a missing caKey.der included.
C13_LoggingByErrorKind ==
  \A t \in Threads :
    /\ CertReadFailed(t) =>
         /\ th[t].path = "generate"
         /\ th[t].err \in {"notExist", "read", "parse"}
         /\ th[t].logs = IF th[t].err = "notExist" THEN {} ELSE {caFile}
    /\ KeyReadDone(t) =>
         /\ th[t].err \in {"none", "notExist", "read", "parse", "wrongType"}
         /\ th[t].logs = IF th[t].err = "none" THEN {} ELSE {caKeyFile}
         /\ th[t].path = IF th[t].err = "none" THEN "recovered" ELSE "generate"

\* a missing key file was logged
C13_Witness ==
  \E t \in Threads :
    KeyReadDone(t) /\ th[t].err = "notExist" /\ th[t].logs = {caKeyFile}

\* C14: within one process every serial handed out is greater than the seed
\* and than every serial handed out before, and the counter holds the last one:
\* it never decreases or repeats, whatever the interleaving.
C14_SerialsIncrease ==
  /\ \A i \in 1..Len(allocated) : allocated[i] > seed
  /\ \A i, j \in 1..Len(allocated) : i < j => allocated[i] < allocated[j]
  /\ currentSerialNumber = IF allocated = <<>> THEN seed ELSE allocated[Len(allocated)]

\* two serials were handed out by a process seeded after a restart
C14_Witness ==
  \/ Len(allocated) = 2 /\ allocated[1] = seed + 1 /\ allocated[2] = seed + 2
  \/ Len(allocated) = 1 /\ restarts = 1 /\ seed = 1 /\ allocated[1] = 2

\* ca.der holds the certificate generated by call t, caKey.der the key
\* generated by another call u
Mixed(t, u) ==
  /\ t # u
  /\ th[t].raw # Nil /\ th[u].priv # Nil
  /\ files[caFile] = th[t].raw
  /\ files[caKeyFile] = MarshalPKCS8PrivateKey(th[u].priv)

\* C15: nothing keeps two calls out of the load-or-generate sequence at the
\* same time, and their writes interleave: whenever ca.der holds the certificate
\* of one call and caKey.der the key of another, the first wrote its
\* certificate and the second completed both of its writes and returned its
\* CA, so the mismatched pair is the product of two regular write sequences
\* and of no failure.
C15_MixedPairFromInterleaving ==
  \A t, u \in Threads :
    Mixed(t, u) =>
      /\ th[t].path = "generate" /\ th[u].path = "generate"
      /\ caFile \in th[t].wrote
      /\ th[u].wrote = BothFiles
      /\ Done(u) /\ th[u].ret.status = "ok"
      /\ files[caFile].pub.n # files[caKeyFile].id

\* two calls that started without a valid CA both returned one, no step of
\* either failed, and the files hold the certificate of one and the key of the
\* other
C15_Witness ==
  \E t, u \in Threads :
    /\ Mixed(t, u)
    /\ Done(t) /\ Done(u)
    /\ th[t].ret.status = "ok" /\ th[u].ret.status = "ok"
    /\ ~th[t].injected /\ ~th[u].injected
    /\ ~ValidStore(th[t].start) /\ ~ValidStore(th[u].start)

\* the position of a call in Start -> TryLoad -> {Recovered | NeedGenerate} -> Done
Rank(pc) ==
  CASE pc = "idle" -> 0
    [] pc = "readCert" -> 1
    [] pc = "readKey" -> 2
    [] pc = "generate" -> 3
    [] pc = "sign" -> 4
    [] pc = "writeCert" -> 5
    [] pc = "writeKey" -> 6
    [] pc = "done" -> 7

Busy(t) == th[t].pc \notin {"idle", "done"}

\* C16 (under SpecFair): a call only moves forward - each step takes it to a
\* later position, so the certificate read, the key read, the key generation
\* with the serial allocation, the signing and the write of each file happen at
\* most once per call - and every call that started ends with a CA or an error.
C16_SinglePass ==
  /\ [][\A t \in Threads :
          (Busy(t) /\ th'[t] # th[t]) =>
            /\ Rank(th'[t].pc) > Rank(th[t].pc)
            /\ Cardinality(th'[t].wrote) + totalAlloc' <= Cardinality(th[t].wrote) + totalAlloc + 1
            /\ th'[t].pc = "done" =>
                 \/ th'[t].ret.status = "ok" /\ th'[t].ret.cert # Nil /\ th'[t].ret.key # Nil
                 \/ th'[t].ret = [status |-> "err", cert |-> Nil, key |-> Nil]]_vars
  /\ \A t \in Threads : Busy(t) ~> Done(t)

\* a call went through every position of the generate path
C16_Witness ==
  \E t \in Threads :
    /\ Done(t) /\ th[t].path = "generate" /\ th[t].ret.status = "ok"
    /\ th[t].certFromDisk # Nil /\ th[t].err = "wrongType"

\* C17: the validity window of a generated certificate is centred on one
\* generation time: notBefore is that time minus a year, notAfter that time
\* plus a year, two years apart.
C17_SingleGenerationTime ==
  \A t \in Threads :
    th[t].raw # Nil =>
      /\ th[t].raw.notAfter - th[t].raw.notBefore = 2 * Year
      /\ \E g \in 0..MaxClock :
           th[t].raw.notBefore = AddDate(g, -1) /\ th[t].raw.notAfter = AddDate(g, 1)

\* C18 (under SpecSeq): from an empty store, while no write has left a
\* truncated file behind, whenever caKey.der exists ca.der exists too and holds
\* the certificate generated with that key, and every call that returns a CA
\* returns a certificate and the key it certifies.
C18_DiskConsistent ==
  pristine =>
    /\ files[caKeyFile] # Absent =>
         /\ LoadableKey(files[caKeyFile]) /\ LoadableCert(files[caFile])
         /\ files[caFile].pub.n = files[caKeyFile].id
         /\ files[caFile].signer = files[caKeyFile].id
    /\ \A t \in Threads :
         (Done(t) /\ th[t].ret.status = "ok") =>
           /\ th[t].ret.cert.PublicKey.n = th[t].ret.key.id
           /\ th[t].ret.cert.Raw.signer = th[t].ret.key.id

\* the call before wrote its certificate and failed to write its key; this call
\* replaced the certificate and wrote the key
C18_Witness ==
  /\ pristine
  /\ \E t \in Threads :
       /\ Done(t) /\ th[t].ret.status = "ok" /\ th[t].path = "generate"
       /\ th[t].prev.failed = "writeKey"
       /\ th[t].prev.end[caFile] # Absent /\ th[t].prev.end[caKeyFile] = Absent
       /\ files[caKeyFile] = MarshalPKCS8PrivateKey(th[t].ret.key)
       /\ files[caFile] # th[t].prev.end[caFile]

====
